---- MODULE Spec2Model ----
(***************************************************************************)
(* A model of auto-vpn: the connect() retry loop of the two client         *)
(* adapters (autovpn/manager/cisco.py, autovpn/manager/forti.py), the      *)
(* command-line process around it (vpn.py, autovpn/cli.py), the secure()   *)
(* wrapper that unseals and re-seals the profile store (autovpn/utils.py,  *)
(* autovpn/encryption.py) and the profile table (autovpn/manager/          *)
(* sqllite.py).                                                            *)
(***************************************************************************)
EXTENDS Integers, Sequences, FiniteSets, TLC

\* ------------------------------------------------------------------------
\* Bounds of the model
\* ------------------------------------------------------------------------

\* Largest retry budget a connect call is given (the -r/--retry argument).
MaxRetries == 3

\* Number of processes started (each draws its own NAMESPACE).
MaxRuns == 3

\* Number of keys that can be generated (secret.key lost MaxKeys - 1 times).
MaxKeys == 2

\* Largest value of the wall clock.
MaxClock == 2

\* Most layers of encryption on a file an Encryption object is given.
MaxLayers == 2

\* Most calls made on one Encryption object.
MaxCalls == 3

\* Settings.delay, and the default of -d/--delay and of Forti.connect.
DEFAULT_DELAY == 5

\* The delays (seconds) a connect call is given: a negative one, none, and
\* the default.
Delays == {-1, 0, DEFAULT_DELAY}

\* ------------------------------------------------------------------------
\* Program constants
\* ------------------------------------------------------------------------

\* VPNService.CISCO / VPNService.FORTI
CISCO == "cisco"
FORTI == "forti"
VPN_CLASSES == {CISCO, FORTI}

\* sys.exit(1) of the configuration-error paths and of handle_error.
EXIT_ERROR == 1
\* The status of a process whose main() returns.
EXIT_OK == 0

VARIABLES
    \* ---- one connect() call on a client adapter ----
    variant,      \* which adapter class the instance is: CISCO or FORTI
    retries,      \* the retry budget the loop runs with
    delay,        \* the seconds the loop sleeps between attempts
    pc,           \* position of the call (see the actions below)
    attempt,      \* the loop variable of `for attempt in range(retries)`
    invocations,  \* number of client connect commands started
    slept,        \* the durations of the sleep() calls made, in order
    statusLog,    \* results of the status() calls made, in order
    queries,      \* the state queries status() ran, in order: how each
                  \* ended and what status() printed
    probeLog,     \* results of the is_network_ready() calls made, in order
    pings,        \* how the ping of each is_network_ready() call ended
    clientLog,    \* outcomes of the client connect commands, in order
    verified,     \* "none" | "true" | "false": result of the status() call
                  \* made after the latest client invocation, if any
    report,       \* the terminal message the call printed, "none" if none
    path,         \* the positions the call went through, in order
    disconnectLog, \* the disconnect commands disconnect() ran, in order
    helperLog,    \* the terminate() and open() calls connect() made, in
                  \* order: how the helper command ended, what was printed,
                  \* whether the method returned
    \* ---- the command-line process around it ----
    caller,       \* "api": connect() called on an instance;
                  \* "cli": reached through VPNCLI.run()
    cliError,     \* how initialize_vpn ended: "none" | "config" | "unexpected"
    exitStatus,   \* <<>> while the process runs, <<status>> once it exited
    args,         \* the command line: --config, whether -H is given,
                  \* whether -H, -U and -P all are, -d; and the config.ini
                  \* the command finds
    data,         \* self.data: <<>> (None) or <<the profile load_config got>>
    \* ---- the profile table vpn_config ----
    rows,         \* the rows of the table, in rowid (insertion) order
    NAMESPACE,    \* utils.NAMESPACE of the running process (uuid.uuid4())
    clock,        \* the wall clock, in seconds
    last,         \* the latest statement run on the table: what it was,
                  \* whether it raised, and the rows before it
    profileMap,   \* for each config_name, the record the latest statement
                  \* that succeeded on that name left (<<>>: none)
    insertOrder,  \* the config_names stored, in the order in which the
                  \* INSERT statements that stored them succeeded
    saved,        \* the save_config call of the latest command, if it made
                  \* one: its arguments, what it printed, the rows before it
    listed,       \* what the listing made since the latest statement
                  \* returned, if one was made
    \* ---- the key file, the store file and the process that runs main() ----
    keyFile,      \* secret.key: 0 when absent, else the key it holds
    keysMade,     \* number of keys Fernet.generate_key() has produced
    key,          \* the key of the running process (0: none loaded)
    fileExists,   \* whether vpn_config.db exists
    layers,       \* the keys vpn_config.db is encrypted under, innermost
                  \* first; <<>>: the file is the plain database
    wpc,          \* position of the process in vpn.py / secure()
    exitPath,     \* how the wrapped function was left, "none" while inside
    sealCalls,    \* encrypt_file calls made by the process
    everKilled,   \* some process was killed before it could exit
    trail,        \* the calls made on an Encryption object, in order: the
                  \* method, the file before and after, what came back
    keyFault,     \* how the key load of the latest run failed ("none": it
                  \* did not), and the store file as that run found it
    crash         \* whether a process was killed while the store file was
                  \* decrypted and no run has completed since ("killed"),
                  \* or the latest run was the first to complete since
                  \* ("recovered"); the table and the key at the kill

connVars == <<variant, retries, delay, pc, attempt, invocations, slept, statusLog,
              queries, probeLog, pings, clientLog, verified, report, path,
              disconnectLog, helperLog>>
cliVars == <<caller, cliError, exitStatus, args, data>>
storeVars == <<rows, NAMESPACE, clock, last, profileMap, insertOrder, saved,
               listed>>
vaultVars == <<keyFile, keysMade, key, fileExists, layers, wpc, exitPath,
               sealCalls, everKilled, trail, keyFault, crash>>
\* What the steps of a connect() call leave alone.
outsideConnect == <<cliVars, storeVars, vaultVars>>
vars == <<connVars, cliVars, storeVars, vaultVars>>

\* ------------------------------------------------------------------------
\* The external collaborators: what one call of each can answer
\* ------------------------------------------------------------------------

\* What a command started with subprocess can do: exit with code 0 or with
\* another code, fail to start (OSError: no such executable, no permission)
\* or never exit.  The client's state query exits 0 with the marker
\* "Connected" in its output or without it.
StatusQueryResults == {"marker", "no_marker", "nonzero", "nostart", "hang"}

\* subprocess.run / communicate come back (with a result or with
\* CalledProcessError) only once the command has exited.
Exits(x) == x \notin {"nostart", "hang"}

\* Where a call is left by a command that does not exit: the OSError of a
\* command that cannot be started is caught by no handler of the adapters;
\* a call without timeout on a command that never exits blocks for ever.
Abandoned(x) == IF x = "hang" THEN "Blocked" ELSE "Raised"

\* status() that takes every exit code 0 for a connection.
status_AnyExit0(q) == q \in {"marker", "no_marker"}

\* Cisco.status / Forti.status: true iff the query exits 0 and its output
\* contains "Connected"; a CalledProcessError is caught and gives False.
status(q) == q = "marker"

\* What status() prints: "VPN Status: ..." after exit 0, "Failed to check VPN
\* status: ..." in the handler of CalledProcessError.
status_console(q) ==
    CASE q \in {"marker", "no_marker"} -> "vpn_status"
      [] q = "nonzero" -> "failed_to_check"
      [] OTHER -> "none"

\* One state query as the log keeps it.
Query(q) == [query |-> q, printed |-> status_console(q)]

\* The ping of is_network_ready: subprocess.run(check=True) without timeout.
PingResults == {"exit0", "nonzero", "nostart", "hang"}

\* Network.is_network_ready: True iff ping exits 0; CalledProcessError -> False.
is_network_ready(p) == p = "exit0"

\* The client connect command.  Cisco: Popen + communicate() with no timeout
\* and no check of the return code, so it ends with some exit code, fails
\* to start or never comes back.  Forti: subprocess.run(check=True,
\* timeout=30), which turns a command that does not exit into TimeoutExpired.
ClientOutcomes(v) ==
    IF v = CISCO THEN {"exit0", "nonzero", "nostart", "hang"}
    ELSE {"exit0", "nonzero", "timeout", "nostart"}

\* The client disconnect command: subprocess.run(check=True), no timeout.
DisconnectOutcomes == {"exit0", "nonzero", "nostart", "hang"}

\* The positions a connect() call ends in: it returned after a confirmed or
\* reported connection, it returned without one, an exception left it.
Terminal == {"Connected", "Failed", "Raised"}

Append2(s, a, b) == Append(Append(s, a), b)

\* time.sleep(secs) raises ValueError for a negative secs.
sleep_raises(secs) == secs < 0

\* ------------------------------------------------------------------------
\* connect(): Cisco.connect (cisco.py 66-105), Forti.connect (forti.py 38-74)
\* ------------------------------------------------------------------------

\* What follows the entry check when the VPN is not connected: Forti.connect
\* calls self.terminate() (forti.py 48), Cisco.connect goes to the loop.
AfterEntry(v) == IF v = FORTI THEN "Terminating" ELSE "ProbingNetwork"

\* The helper command of terminate(): subprocess.run of taskkill without
\* check and without timeout.
TerminateOutcomes == {"exit0", "nonzero", "nostart", "hang"}

\* The helper command of open(): Popen starts the client application and
\* does not wait for it, or cannot start it.
OpenOutcomes == {"started", "nostart"}

\* Forti.terminate (forti.py 29-36) as the log keeps it.  Without check=True
\* subprocess.run returns whatever the exit code, so the handler of
\* CalledProcessError never runs and nothing is printed; an OSError of
\* the launch leaves the method.
Forti_terminate_call(h) ==
    [helper |-> "terminate", outcome |-> h, printed |-> "none",
     returned |-> Exits(h)]

\* Forti.open (forti.py 19-27) as the log keeps it: `except Exception`
\* prints "Failed to open FortiClient application: ..." and the method
\* returns.
Forti_open_call(h) ==
    [helper |-> "open", outcome |-> h,
     printed |-> IF h = "nostart" THEN "failed_to_open" ELSE "opened",
     returned |-> TRUE]

\* self.terminate() of Forti.connect (forti.py 48), outside any try block.
Forti_terminate ==
    /\ pc = "Terminating"
    /\ \E h \in TerminateOutcomes :
         /\ helperLog' = Append(helperLog, Forti_terminate_call(h))
         /\ IF Exits(h)
              THEN /\ pc' = "ProbingNetwork"
                   /\ path' = path
              ELSE /\ pc' = Abandoned(h)
                   /\ path' = Append(path, Abandoned(h))
    /\ UNCHANGED <<variant, retries, delay, attempt, invocations, slept,
                   statusLog, queries, probeLog, pings, clientLog, verified,
                   report, disconnectLog, outsideConnect>>

\* connect_entry without the `return` of the already-connected branch.
connect_entry_NoReturn ==
    /\ pc = "Idle"
    /\ \E q \in StatusQueryResults :
         /\ queries' = Append(queries, Query(q))
         /\ IF Exits(q)
              THEN /\ statusLog' = Append(statusLog, status(q))
                   /\ report' = IF status(q) THEN "already_connected"
                                ELSE report
                   /\ pc' = AfterEntry(variant)
                   /\ path' = path
              ELSE /\ pc' = Abandoned(q)
                   /\ path' = Append(path, Abandoned(q))
                   /\ UNCHANGED <<statusLog, report>>
    /\ attempt' = 0
    /\ UNCHANGED <<variant, retries, delay, invocations, slept, probeLog,
                   pings, clientLog, verified, disconnectLog, helperLog,
                   outsideConnect>>

\* `if self.status(): print("VPN is already connected."); return`.
\* Otherwise the call goes on to the loop (Forti calls terminate() first).
connect_entry ==
    /\ pc = "Idle"
    /\ \E q \in StatusQueryResults :
         /\ queries' = Append(queries, Query(q))
         /\ IF Exits(q)
              THEN /\ statusLog' = Append(statusLog, status(q))
                   /\ IF status(q)
                        THEN /\ pc' = "Connected"
                             /\ report' = "already_connected"
                             /\ path' = Append(path, "Connected")
                        ELSE /\ pc' = AfterEntry(variant)
                             /\ report' = report
                             /\ path' = path
              ELSE /\ pc' = Abandoned(q)
                   /\ path' = Append(path, Abandoned(q))
                   /\ UNCHANGED <<statusLog, report>>
    /\ attempt' = 0
    /\ UNCHANGED <<variant, retries, delay, invocations, slept, probeLog,
                   pings, clientLog, verified, disconnectLog, helperLog,
                   outsideConnect>>

\* connect_probe with a `continue` that does not count: the failed probe
\* leaves the attempt counter as it is.
connect_probe_NoCount ==
    /\ pc = "ProbingNetwork"
    /\ attempt < retries
    /\ \E p \in PingResults :
         /\ pings' = Append(pings, p)
         /\ IF ~Exits(p)
              THEN /\ pc' = Abandoned(p)
                   /\ path' = Append(path, Abandoned(p))
                   /\ UNCHANGED <<probeLog, attempt, slept>>
              ELSE /\ probeLog' = Append(probeLog, is_network_ready(p))
                   /\ IF is_network_ready(p)
                        THEN /\ pc' = "Invoking"
                             /\ path' = Append2(path, "ProbingNetwork",
                                                "Invoking")
                             /\ UNCHANGED <<attempt, slept>>
                        ELSE /\ slept' = Append(slept, delay)
                             /\ attempt' = attempt
                             /\ IF sleep_raises(delay)
                                  THEN /\ pc' = "Raised"
                                       /\ path' = Append(path, "Raised")
                                  ELSE /\ pc' = "ProbingNetwork"
                                       /\ path' = Append(path,
                                                         "ProbingNetwork")
    /\ UNCHANGED <<variant, retries, delay, invocations, statusLog, queries,
                   clientLog, verified, report, disconnectLog, helperLog,
                   outsideConnect>>

\* The head of `for attempt in range(retries)` with attempts left: one
\* is_network_ready() call.  Not ready: print, sleep(delay), continue.  An
\* OSError of the ping is not caught; a ping that never exits blocks the
\* call; the ValueError of sleep() leaves connect().
connect_probe ==
    /\ pc = "ProbingNetwork"
    /\ attempt < retries
    /\ \E p \in PingResults :
         /\ pings' = Append(pings, p)
         /\ IF ~Exits(p)
              THEN /\ pc' = Abandoned(p)
                   /\ path' = Append(path, Abandoned(p))
                   /\ UNCHANGED <<probeLog, attempt, slept>>
              ELSE /\ probeLog' = Append(probeLog, is_network_ready(p))
                   /\ IF is_network_ready(p)
                        THEN /\ pc' = "Invoking"
                             /\ path' = Append2(path, "ProbingNetwork",
                                                "Invoking")
                             /\ UNCHANGED <<attempt, slept>>
                        ELSE /\ slept' = Append(slept, delay)
                             /\ IF sleep_raises(delay)
                                  THEN /\ pc' = "Raised"
                                       /\ path' = Append(path, "Raised")
                                       /\ attempt' = attempt
                                  ELSE /\ pc' = "ProbingNetwork"
                                       /\ path' = Append(path,
                                                         "ProbingNetwork")
                                       /\ attempt' = attempt + 1
    /\ UNCHANGED <<variant, retries, delay, invocations, statusLog, queries,
                   clientLog, verified, report, disconnectLog, helperLog,
                   outsideConnect>>

\* The loop is exhausted.  Cisco.connect falls off the end of the function
\* without printing; Forti.connect prints "VPN connection attempts failed."
connect_exhausted ==
    /\ pc = "ProbingNetwork"
    /\ attempt >= retries
    /\ pc' = "Failed"
    /\ path' = Append(path, "Failed")
    /\ report' = IF variant = FORTI THEN "attempts_failed" ELSE report
    /\ UNCHANGED <<variant, retries, delay, attempt, invocations, slept,
                   statusLog, queries, probeLog, pings, clientLog, verified,
                   disconnectLog, helperLog, outsideConnect>>

\* Cisco: set_config, Popen(connect_command), communicate(credentials)
\* without timeout.  The return code is not looked at; an OSError of Popen
\* is not caught by `except (TimeoutExpired, CalledProcessError)`; a client
\* that never exits keeps communicate() waiting.
Cisco_invoke(o) ==
    /\ variant = CISCO
    /\ IF Exits(o)
         THEN /\ pc' = "Verifying"
              /\ path' = Append(path, "Verifying")
         ELSE /\ pc' = Abandoned(o)
              /\ path' = Append(path, Abandoned(o))
    /\ UNCHANGED <<attempt, report>>

\* Forti: subprocess.run(command, stdin=credential_file, check=True,
\* timeout=30).  Exit 0: print "VPN connected successfully." and return.
\* TimeoutExpired: print and go to the next attempt.  CalledProcessError:
\* the retry branch.  An OSError is not caught.
Forti_invoke(o) ==
    /\ variant = FORTI
    /\ CASE o = "exit0" ->
              /\ pc' = "Connected"
              /\ path' = Append(path, "Connected")
              /\ report' = "connected"
              /\ attempt' = attempt
         [] o = "timeout" ->
              /\ pc' = "ProbingNetwork"
              /\ path' = path
              /\ report' = report
              /\ attempt' = attempt + 1
         [] o = "nonzero" ->
              /\ pc' = "Retrying"
              /\ path' = Append(path, "Retrying")
              /\ UNCHANGED <<attempt, report>>
         [] OTHER ->
              /\ pc' = "Raised"
              /\ path' = Append(path, "Raised")
              /\ UNCHANGED <<attempt, report>>

\* The client connect command of one attempt.
connect_invoke ==
    /\ pc = "Invoking"
    /\ \E o \in ClientOutcomes(variant) :
         /\ clientLog' = Append(clientLog, o)
         /\ \/ Cisco_invoke(o)
            \/ Forti_invoke(o)
    /\ invocations' = invocations + 1
    /\ verified' = "none"
    /\ UNCHANGED <<variant, retries, delay, slept, statusLog, queries,
                   probeLog, pings, disconnectLog, helperLog, outsideConnect>>

\* connect_verify without the `return` after "VPN connected successfully.".
connect_verify_NoReturn ==
    /\ pc = "Verifying"
    /\ \E q \in StatusQueryResults :
         /\ queries' = Append(queries, Query(q))
         /\ IF Exits(q)
              THEN /\ statusLog' = Append(statusLog, status(q))
                   /\ verified' = IF status(q) THEN "true" ELSE "false"
                   /\ report' = IF status(q) THEN "connected" ELSE report
                   /\ pc' = "Retrying"
                   /\ path' = Append(path, "Retrying")
              ELSE /\ pc' = Abandoned(q)
                   /\ path' = Append(path, Abandoned(q))
                   /\ UNCHANGED <<statusLog, verified, report>>
    /\ UNCHANGED <<variant, retries, delay, attempt, invocations, slept,
                   probeLog, pings, clientLog, disconnectLog, helperLog,
                   outsideConnect>>

\* Cisco only: `if self.status(): print("VPN connected successfully.");
\* return` else raise CalledProcessError, caught by the retry branch.
connect_verify ==
    /\ pc = "Verifying"
    /\ \E q \in StatusQueryResults :
         /\ queries' = Append(queries, Query(q))
         /\ IF Exits(q)
              THEN /\ statusLog' = Append(statusLog, status(q))
                   /\ verified' = IF status(q) THEN "true" ELSE "false"
                   /\ IF status(q)
                        THEN /\ pc' = "Connected"
                             /\ report' = "connected"
                             /\ path' = Append(path, "Connected")
                        ELSE /\ pc' = "Retrying"
                             /\ report' = report
                             /\ path' = Append(path, "Retrying")
              ELSE /\ pc' = Abandoned(q)
                   /\ path' = Append(path, Abandoned(q))
                   /\ UNCHANGED <<statusLog, verified, report>>
    /\ UNCHANGED <<variant, retries, delay, attempt, invocations, slept,
                   probeLog, pings, clientLog, disconnectLog, helperLog,
                   outsideConnect>>

\* The `except CalledProcessError` branch: with attempts left, sleep(delay)
\* (Forti calls open() before it), whose ValueError leaves connect(); on
\* the last attempt Cisco prints "VPN connection attempts failed after
\* multiple retries.", Forti prints nothing here.  Then the next iteration.
connect_retry ==
    /\ pc = "Retrying"
    /\ IF attempt < retries - 1
         THEN /\ slept' = Append(slept, delay)
              /\ report' = report
              /\ IF variant = FORTI
                   THEN \E h \in OpenOutcomes :
                          helperLog' = Append(helperLog, Forti_open_call(h))
                   ELSE helperLog' = helperLog
              /\ IF sleep_raises(delay)
                   THEN /\ pc' = "Raised"
                        /\ path' = Append(path, "Raised")
                        /\ attempt' = attempt
                   ELSE /\ pc' = "ProbingNetwork"
                        /\ path' = path
                        /\ attempt' = attempt + 1
         ELSE /\ slept' = slept
              /\ helperLog' = helperLog
              /\ report' = IF variant = CISCO THEN "attempts_failed"
                           ELSE report
              /\ pc' = "ProbingNetwork"
              /\ path' = path
              /\ attempt' = attempt + 1
    /\ UNCHANGED <<variant, retries, delay, invocations, statusLog, queries,
                   probeLog, pings, clientLog, verified, disconnectLog,
                   outsideConnect>>

\* ------------------------------------------------------------------------
\* disconnect(): Cisco.disconnect (cisco.py 107-118), Forti.disconnect
\* (forti.py 76-86), called on the instance once its connect() has returned
\* ------------------------------------------------------------------------

\* One disconnect command as the log keeps it: how it ended and what the
\* handler of CalledProcessError printed.
Disconnection(o) ==
    [outcome |-> o,
     printed |-> IF o = "nonzero" THEN "failed_to_disconnect" ELSE "none"]

\* disconnect() with a loop around the command: a non-zero exit is printed
\* and the command is run again.
disconnect_Retrying ==
    /\ caller = "api"
    /\ pc \in {"Connected", "Failed"}
    /\ \E o \in DisconnectOutcomes :
         /\ disconnectLog' = Append(disconnectLog, Disconnection(o))
         /\ pc' = IF o = "nonzero" THEN pc
                  ELSE IF Exits(o) THEN "Disconnected"
                  ELSE IF o = "hang" THEN "DisconnectBlocked"
                  ELSE "DisconnectRaised"
    /\ UNCHANGED <<variant, retries, delay, attempt, invocations, slept,
                   statusLog, queries, probeLog, pings, clientLog, verified,
                   report, path, helperLog, outsideConnect>>

\* One subprocess.run(command, check=True, capture_output=True, text=True)
\* in a try block; `except CalledProcessError` prints "Failed to disconnect
\* from VPN: ..." and the method returns.
disconnect ==
    /\ caller = "api"
    /\ pc \in {"Connected", "Failed"}
    /\ \E o \in DisconnectOutcomes :
         /\ disconnectLog' = Append(disconnectLog, Disconnection(o))
         /\ pc' = IF Exits(o) THEN "Disconnected"
                  ELSE IF o = "hang" THEN "DisconnectBlocked"
                  ELSE "DisconnectRaised"
    /\ UNCHANGED <<variant, retries, delay, attempt, invocations, slept,
                   statusLog, queries, probeLog, pings, clientLog, verified,
                   report, path, helperLog, outsideConnect>>

\* ------------------------------------------------------------------------
\* The profile table (sqllite.py), as far as the command line reads it
\* ------------------------------------------------------------------------

\* A value Python passes as None (an argument that was not given).
None == "None"

Names == {"office", "home"}

\* SELECT * FROM vpn_config WHERE config_name = ?; fetchone(): the row as a
\* one-element sequence, <<>> for None.
get_config(table, config_name) ==
    SelectSeq(table, LAMBDA r : r.config_name = config_name)

\* utils.generate_uuid5: uuid5(NAMESPACE, name).hex, a function of the
\* namespace and the name that does not collide.
generate_uuid5(namespace, name) == <<namespace, name>>

\* DEFAULT CURRENT_TIMESTAMP of created_at and updated_at: the time in UTC.
CURRENT_TIMESTAMP == <<"utc", clock>>

\* datetime.now().strftime("%Y-%m-%d %H:%M:%S") of update_config: the time
\* of the local zone, written without its offset.
datetime_now == <<"local", clock>>

\* The host, username, password and vpn_type a statement is given.
Profiles ==
    {[host |-> "vpn.example.com", username |-> "alice",
      password |-> "s3cret", vpn_type |-> CISCO],
     [host |-> "vpn2.example.com", username |-> "bob",
      password |-> "hunter2", vpn_type |-> FORTI]}

\* The same with an argument left out (Python None, SQL NULL).
ProfileArgs ==
    Profiles \cup {[host |-> None, username |-> "alice",
                    password |-> "s3cret", vpn_type |-> CISCO]}

HasNull(f) ==
    \/ f.host = None
    \/ f.username = None
    \/ f.password = None
    \/ f.vpn_type = None

\* The constraints of CREATE TABLE vpn_config as an INSERT meets them:
\* id TEXT PRIMARY KEY, config_name TEXT NOT NULL UNIQUE, and NOT NULL on
\* host, username, password and vpn_type.  TRUE: sqlite3.IntegrityError.
IntegrityError_PrimaryKeyOnly(table, id, config_name, f) ==
    \/ \E i \in 1..Len(table) : table[i].id = id
    \/ config_name = None
    \/ HasNull(f)

IntegrityError(table, id, config_name, f) ==
    \/ \E i \in 1..Len(table) : table[i].id = id
    \/ \E i \in 1..Len(table) : table[i].config_name = config_name
    \/ config_name = None
    \/ HasNull(f)

NewRow(id, config_name, f) ==
    [id |-> id, config_name |-> config_name, host |-> f.host,
     username |-> f.username, password |-> f.password,
     vpn_type |-> f.vpn_type, created_at |-> CURRENT_TIMESTAMP,
     updated_at |-> CURRENT_TIMESTAMP]

NoStatement ==
    [op |-> "none", config_name |-> None, raised |-> FALSE, before |-> <<>>]

Statement(op, config_name, raised) ==
    [op |-> op, config_name |-> config_name, raised |-> raised,
     before |-> rows]

\* The config_names of the rows of a table, in the order of the rows.
NamesOf(table) == [i \in 1..Len(table) |-> table[i].config_name]

\* No listing was made since the latest statement.
NoListing == [kind |-> "none", vpn_type |-> None, result |-> <<>>]

\* The map from config_name to record that the table is read as: a
\* statement that succeeded puts, replaces or removes the record of its
\* name, a statement that raised changes nothing.
Put(m, config_name, record) == [m EXCEPT ![config_name] = <<record>>]
Remove(m, config_name) == [m EXCEPT ![config_name] = <<>>]
Replace(m, config_name, f, at) ==
    IF m[config_name] = <<>> THEN m
    ELSE Put(m, config_name,
             [m[config_name][1] EXCEPT !.host = f.host,
                                       !.username = f.username,
                                       !.password = f.password,
                                       !.vpn_type = f.vpn_type,
                                       !.updated_at = at])

\* insert_config with the INSERT split in two statements, the row first and
\* its values after it, so that a failing value leaves the row behind.
insert_config_NoRollback(config_name, f) ==
    LET id == generate_uuid5(NAMESPACE, config_name) IN
      IF IntegrityError(rows, id, config_name, f)
        THEN /\ rows' = IF get_config(rows, config_name) = <<>>
                          /\ config_name # None
                          THEN Append(rows, NewRow(id, config_name, f))
                          ELSE rows
             /\ last' = Statement("insert", config_name, TRUE)
             /\ profileMap' = profileMap
             /\ insertOrder' = insertOrder
        ELSE /\ rows' = Append(rows, NewRow(id, config_name, f))
             /\ last' = Statement("insert", config_name, FALSE)
             /\ profileMap' = Put(profileMap, config_name,
                                  NewRow(id, config_name, f))
             /\ insertOrder' = Append(insertOrder, config_name)

\* No save_config call was made by the latest command.
NoSave ==
    [config_name |-> None,
     args |-> [host |-> None, username |-> None, password |-> None,
               vpn_type |-> None],
     force |-> FALSE, report |-> "none", before |-> <<>>, at |-> 0]

\* The map a table is read as.
MapOf(table) == [n \in Names |-> get_config(table, n)]

\* SQLiteManager.insert_config: INSERT and commit; an sqlite3 error is
\* printed and raised again, and the failed statement changes no row.
insert_config(config_name, f) ==
    LET id == generate_uuid5(NAMESPACE, config_name) IN
      IF IntegrityError(rows, id, config_name, f)
        THEN /\ rows' = rows
             /\ last' = Statement("insert", config_name, TRUE)
             /\ profileMap' = profileMap
             /\ insertOrder' = insertOrder
        ELSE /\ rows' = Append(rows, NewRow(id, config_name, f))
             /\ last' = Statement("insert", config_name, FALSE)
             /\ profileMap' = Put(profileMap, config_name,
                                  NewRow(id, config_name, f))
             /\ insertOrder' = Append(insertOrder, config_name)

\* update_config with the updated_at column left out of the SET clause.
update_config_NoTimestamp(config_name, f) ==
    IF HasNull(f) /\ get_config(rows, config_name) # <<>>
      THEN /\ rows' = rows
           /\ last' = Statement("update", config_name, TRUE)
           /\ profileMap' = profileMap
           /\ insertOrder' = insertOrder
      ELSE /\ rows' = [i \in 1..Len(rows) |->
                         IF rows[i].config_name = config_name
                           THEN [rows[i] EXCEPT
                                   !.host = f.host,
                                   !.username = f.username,
                                   !.password = f.password,
                                   !.vpn_type = f.vpn_type]
                           ELSE rows[i]]
           /\ last' = Statement("update", config_name, FALSE)
           /\ profileMap' = Replace(profileMap, config_name, f, datetime_now)
           /\ insertOrder' = insertOrder

\* SQLiteManager.update_config: UPDATE ... WHERE config_name = ? and commit.
\* No row of that name: nothing changes.  A NULL value: IntegrityError.
update_config(config_name, f) ==
    IF HasNull(f) /\ get_config(rows, config_name) # <<>>
      THEN /\ rows' = rows
           /\ last' = Statement("update", config_name, TRUE)
           /\ profileMap' = profileMap
           /\ insertOrder' = insertOrder
      ELSE /\ rows' = [i \in 1..Len(rows) |->
                         IF rows[i].config_name = config_name
                           THEN [rows[i] EXCEPT
                                   !.host = f.host,
                                   !.username = f.username,
                                   !.password = f.password,
                                   !.vpn_type = f.vpn_type,
                                   !.updated_at = datetime_now]
                           ELSE rows[i]]
           /\ last' = Statement("update", config_name, FALSE)
           /\ profileMap' = Replace(profileMap, config_name, f, datetime_now)
           /\ insertOrder' = insertOrder

\* delete_config with a check that the row exists before the DELETE.
delete_config_RaisesIfAbsent(config_name) ==
    IF get_config(rows, config_name) = <<>>
      THEN /\ rows' = rows
           /\ last' = Statement("delete", config_name, TRUE)
           /\ profileMap' = profileMap
           /\ insertOrder' = insertOrder
      ELSE /\ rows' = SelectSeq(rows, LAMBDA r : r.config_name # config_name)
           /\ last' = Statement("delete", config_name, FALSE)
           /\ profileMap' = Remove(profileMap, config_name)
           /\ insertOrder' = SelectSeq(insertOrder,
                                        LAMBDA n : n # config_name)

\* SQLiteManager.delete_config: DELETE ... WHERE config_name = ? and commit.
\* A DELETE that matches no row is not an error.
delete_config(config_name) ==
    /\ rows' = SelectSeq(rows, LAMBDA r : r.config_name # config_name)
    /\ last' = Statement("delete", config_name, FALSE)
    /\ profileMap' = Remove(profileMap, config_name)
    /\ insertOrder' = SelectSeq(insertOrder,
                                 LAMBDA n : n # config_name)

\* The three changing methods called on an open SQLiteManager.
call_insert_config ==
    /\ \E config_name \in Names, f \in ProfileArgs :
         insert_config(config_name, f)
    /\ listed' = NoListing
    /\ UNCHANGED <<NAMESPACE, clock, saved, connVars, cliVars, vaultVars>>

call_update_config ==
    /\ \E config_name \in Names, f \in ProfileArgs :
         update_config(config_name, f)
    /\ listed' = NoListing
    /\ UNCHANGED <<NAMESPACE, clock, saved, connVars, cliVars, vaultVars>>

call_delete_config ==
    /\ \E config_name \in Names : delete_config(config_name)
    /\ listed' = NoListing
    /\ UNCHANGED <<NAMESPACE, clock, saved, connVars, cliVars, vaultVars>>

\* get_all_configs that reads the table backwards (ORDER BY rowid DESC).
get_all_configs_Reversed(table) ==
    [i \in 1..Len(table) |-> table[Len(table) + 1 - i]]

\* SQLiteManager.get_all_configs: SELECT * FROM vpn_config, a scan of the
\* table in rowid order, each row made a dictionary of its eight columns.
get_all_configs(table) ==
    [i \in 1..Len(table) |->
       [id |-> table[i].id, config_name |-> table[i].config_name,
        host |-> table[i].host, username |-> table[i].username,
        password |-> table[i].password, vpn_type |-> table[i].vpn_type,
        created_at |-> table[i].created_at,
        updated_at |-> table[i].updated_at]]

\* SQLiteManager.get_config_by_type: SELECT * FROM vpn_config WHERE
\* vpn_type = ?, the same scan with the rows of other types left out.
get_config_by_type(table, vpn_type) ==
    LET found == SelectSeq(table, LAMBDA r : r.vpn_type = vpn_type) IN
      [i \in 1..Len(found) |->
         [id |-> found[i].id, config_name |-> found[i].config_name,
          host |-> found[i].host, username |-> found[i].username,
          password |-> found[i].password, vpn_type |-> found[i].vpn_type,
          created_at |-> found[i].created_at,
          updated_at |-> found[i].updated_at]]

\* The two listing methods called on an open SQLiteManager
\* (handle_list_configs calls the second when -t/--type is given).
call_get_all_configs ==
    /\ listed' = [kind |-> "all", vpn_type |-> None,
                  result |-> get_all_configs(rows)]
    /\ UNCHANGED <<rows, NAMESPACE, clock, last, profileMap, insertOrder,
                   saved, connVars, cliVars, vaultVars>>

call_get_config_by_type ==
    /\ \E vpn_type \in VPN_CLASSES :
         listed' = [kind |-> "type", vpn_type |-> vpn_type,
                    result |-> get_config_by_type(rows, vpn_type)]
    /\ UNCHANGED <<rows, NAMESPACE, clock, last, profileMap, insertOrder,
                   saved, connVars, cliVars, vaultVars>>

\* A second passes.
tick ==
    /\ clock < MaxClock
    /\ clock' = clock + 1
    /\ UNCHANGED <<rows, NAMESPACE, last, profileMap, insertOrder, saved,
                   listed, connVars, cliVars, vaultVars>>

\* The program is started again: utils.NAMESPACE = uuid.uuid4() is drawn
\* anew when the module is imported; the table is the one on disk.
new_process ==
    /\ NAMESPACE < MaxRuns
    /\ NAMESPACE' = NAMESPACE + 1
    /\ UNCHANGED <<rows, clock, last, profileMap, insertOrder, saved, listed,
                   connVars, cliVars, vaultVars>>

\* ------------------------------------------------------------------------
\* The commands that write profiles (cli.py: save_config, run, load_config,
\* handle_delete_config)
\* ------------------------------------------------------------------------

Saved(config_name, f, force, message) ==
    [config_name |-> config_name, args |-> f, force |-> force,
     report |-> message, before |-> rows, at |-> clock]

\* save_config without the branch on args.force: an existing profile is
\* always overwritten.
save_config_IgnoresForce(f, config_name, force) ==
    IF f.host = "" \/ f.username = "" \/ f.password = ""
      THEN /\ UNCHANGED <<rows, last, profileMap, insertOrder>>
           /\ saved' = Saved(config_name, f, force, "fields_required")
      ELSE IF get_config(rows, config_name) # <<>>
        THEN /\ update_config(config_name, f)
             /\ saved' = Saved(config_name, f, force, "overwritten")
        ELSE /\ insert_config(config_name, f)
             /\ saved' = Saved(config_name, f, force, "saved")

\* save_config without the check of the empty host, user or password.
save_config_NoFieldCheck(f, config_name, force) ==
    IF get_config(rows, config_name) # <<>>
      THEN IF force
             THEN /\ update_config(config_name, f)
                  /\ saved' = Saved(config_name, f, force, "overwritten")
             ELSE /\ UNCHANGED <<rows, last, profileMap, insertOrder>>
                  /\ saved' = Saved(config_name, f, force, "conflict")
      ELSE /\ insert_config(config_name, f)
           /\ saved' = Saved(config_name, f, force, "saved")

\* VPNCLI.save_config(host, user, password, config_name, vpn_type) with
\* args.force.  An empty host, user or password: "All fields are required."
\* and return.  The name exists: with force update_config and "Existing
\* config ... has been overwritten.", without it "Config name already
\* exists. Use -f to overwrite." and return.  Otherwise insert_config and
\* "Successfully saved config".  An exception of the statement is caught
\* and printed as "Failed to save config".
save_config(f, config_name, force) ==
    IF f.host = "" \/ f.username = "" \/ f.password = ""
      THEN /\ UNCHANGED <<rows, last, profileMap, insertOrder>>
           /\ saved' = Saved(config_name, f, force, "fields_required")
      ELSE IF get_config(rows, config_name) # <<>>
        THEN IF force
               THEN /\ update_config(config_name, f)
                    /\ saved' = Saved(config_name, f, force,
                                      IF HasNull(f) THEN "failed"
                                      ELSE "overwritten")
               ELSE /\ UNCHANGED <<rows, last, profileMap, insertOrder>>
                    /\ saved' = Saved(config_name, f, force, "conflict")
        ELSE /\ insert_config(config_name, f)
             /\ saved' = Saved(config_name, f, force,
                               IF IntegrityError(
                                    rows,
                                    generate_uuid5(NAMESPACE, config_name),
                                    config_name, f)
                                 THEN "failed" ELSE "saved")

\* str.strip() on the answers the model types.
strip(x) == IF x = " " THEN "" ELSE x

\* validation.validate_user: len(user) > 0.
validate_user(user) == user # ""

\* What is typed at the prompts of `create` (VPN type, Host, User) and at
\* getpass: a type and a host that pass validate_vpn_type and
\* validate_host, a user that may be blank, a password that may be blank
\* or empty.
Answers ==
    Profiles \cup
    {[host |-> "vpn.example.com", username |-> " ", password |-> "s3cret",
      vpn_type |-> CISCO],
     [host |-> "vpn.example.com", username |-> "alice", password |-> " ",
      vpn_type |-> CISCO],
     [host |-> "vpn.example.com", username |-> "alice", password |-> "",
      vpn_type |-> CISCO]}

\* run() for `create -C <name> [-f]`: get_valid_input returns the stripped
\* answer once one is non-empty and passes its validation; the password is
\* getpass().strip(); then save_config.
cmd_create ==
    /\ \E config_name \in Names, a \in Answers, force \in BOOLEAN :
         /\ validate_user(a.username)
         /\ save_config([host |-> strip(a.host),
                         username |-> strip(a.username),
                         password |-> strip(a.password),
                         vpn_type |-> strip(a.vpn_type)],
                        config_name, force)
    /\ UNCHANGED <<NAMESPACE, clock, listed, connVars, cliVars, vaultVars>>

\* load_config() for `connect <vpn_type> -H -U -P -S <name> [-f]`: host,
\* user and password are all given and non-empty, and save_config is called
\* with them before the connection is set up.
cmd_connect_save ==
    /\ \E config_name \in Names, f \in Profiles, force \in BOOLEAN :
         save_config(f, config_name, force)
    /\ UNCHANGED <<NAMESPACE, clock, listed, connVars, cliVars, vaultVars>>

\* handle_delete_config() for `--delete --config <name>`.
cmd_delete ==
    /\ \E config_name \in Names : delete_config(config_name)
    /\ saved' = NoSave
    /\ UNCHANGED <<NAMESPACE, clock, listed, connVars, cliVars, vaultVars>>

\* The profile of the end-to-end scenario, as a row of the table.
OfficeRow ==
    [id |-> <<0, "office">>, config_name |-> "office",
     host |-> "vpn.example.com", username |-> "alice", password |-> "s3cret",
     vpn_type |-> CISCO, created_at |-> <<"utc", 0>>,
     updated_at |-> <<"utc", 0>>]

\* A second row, of a profile created for the Forti client.
HomeRow ==
    [id |-> <<0, "home">>, config_name |-> "home",
     host |-> "vpn2.example.com", username |-> "bob", password |-> "hunter2",
     vpn_type |-> FORTI, created_at |-> <<"utc", 0>>,
     updated_at |-> <<"utc", 0>>]

\* ------------------------------------------------------------------------
\* The key file and the sealing of the store file (utils.py, encryption.py)
\* ------------------------------------------------------------------------

Last(s) == s[Len(s)]
Front(s) == SubSeq(s, 1, Len(s) - 1)

\* The content of a file is written as the sequence of keys it is encrypted
\* under, innermost first, over bytes that are no token at all (<<>>: those
\* bytes themselves).  A layer of key 0, which no process holds, is a
\* damaged token: ciphertext that no key opens.  The IV and the timestamp
\* of a token are not part of this: two tokens of the same bytes under the
\* same key are one value here.

\* Encryption.encrypt_file: the file's bytes are replaced by their Fernet
\* token under the key; whatever the bytes are, one more layer.
encrypt_file_Plain(ls, k) == ls

\* encrypt_file with the token encrypted once more before it is written.
encrypt_file_Twice(ls, k) == Append(Append(ls, k), k)

encrypt_file(ls, k) == Append(ls, k)

\* decrypt_file that leaves the file as it is whatever the key.
decrypt_file_Never(ls, k) == ls

\* decrypt_file with a decryption that does not check whose token it opens.
decrypt_file_AnyKey(ls, k) ==
    IF ls # <<>> THEN Front(ls) ELSE ls

\* Encryption.decrypt_file: the bytes are replaced by their decryption when
\* they are a token of the key; any failure of fernet.decrypt (a plain
\* database, an empty file, a token of another key) returns with the file
\* as it is.
decrypt_file(ls, k) ==
    IF ls # <<>> /\ Last(ls) = k THEN Front(ls) ELSE ls

\* fernet.decrypt(file_data) raises InvalidToken: the bytes are not a token
\* made under the key.
InvalidToken(ls, k) == ls = <<>> \/ Last(ls) # k

\* is_encrypted with a test of the token's form in place of the decryption.
is_encrypted_AnyToken(exists, ls, k) == exists /\ ls # <<>>

\* Encryption.is_encrypted: open, read and fernet.decrypt in a try block;
\* True when all of it went through, False on InvalidToken and, after a
\* print, on any other exception (a file that cannot be opened or read).
is_encrypted(exists, ls, k) == exists /\ ~InvalidToken(ls, k)

\* One call on the Encryption object, as the trail keeps it.  `result` is
\* what the call returned ("None", "True", "False") or the exception that
\* left it.
Call(op, before, after, result) ==
    [op |-> op, existed |-> fileExists, before |-> before, after |-> after,
     result |-> result]

\* encrypt_file(path): open(path, 'rb') raises FileNotFoundError on an
\* absent file.
call_encrypt_file ==
    /\ Len(trail) < MaxCalls
    /\ layers' = IF fileExists THEN encrypt_file(layers, key) ELSE layers
    /\ trail' = Append(trail,
                       Call("encrypt_file", layers, layers',
                            IF fileExists THEN "None"
                            ELSE "FileNotFoundError"))
    /\ UNCHANGED <<keyFile, keysMade, key, fileExists, wpc, exitPath,
                   sealCalls, everKilled, keyFault, crash, storeVars, connVars,
                   cliVars>>

\* decrypt_file(path): the same open() outside the try block.
call_decrypt_file ==
    /\ Len(trail) < MaxCalls
    /\ layers' = IF fileExists THEN decrypt_file(layers, key) ELSE layers
    /\ trail' = Append(trail,
                       Call("decrypt_file", layers, layers',
                            IF fileExists THEN "None"
                            ELSE "FileNotFoundError"))
    /\ UNCHANGED <<keyFile, keysMade, key, fileExists, wpc, exitPath,
                   sealCalls, everKilled, keyFault, crash, storeVars, connVars,
                   cliVars>>

\* is_encrypted(path): nothing is written.
call_is_encrypted ==
    /\ Len(trail) < MaxCalls
    /\ trail' = Append(trail,
                       Call("is_encrypted", layers, layers,
                            IF is_encrypted(fileExists, layers, key)
                              THEN "True" ELSE "False"))
    /\ UNCHANGED <<keyFile, keysMade, key, fileExists, layers, wpc, exitPath,
                   sealCalls, everKilled, keyFault, crash, storeVars, connVars,
                   cliVars>>

\* The ways the key load at the top of vpn.py fails: open(key_file, 'rb')
\* raises on a file that cannot be read; open(key_file, 'wb') raises where
\* the file cannot be created; Fernet(key) raises ValueError on bytes that
\* are not a key.
KeyFaults == {"unreadable", "unwritable", "malformed"}

\* The key load of the latest run did not fail.
NoFault ==
    [fault |-> "none", fileExists |-> FALSE, layers |-> <<>>, rows |-> <<>>]

\* No process was killed while the store file was decrypted.
NoCrash == [state |-> "none", rows |-> <<>>, key |-> 0]

\* A run starts: the run before it, if it was the one that completed after
\* a kill, is no longer the latest.
Started(c) == IF c.state = "recovered" THEN NoCrash ELSE c

\* A run completes (its wrapper has run the finally clause).
Completed(c) ==
    IF c.state = "killed" THEN [c EXCEPT !.state = "recovered"] ELSE c

\* The state while no process of the program is running and nothing is on
\* disk (the connect and table specifications leave this part alone).
NoProcess ==
    /\ keyFile = 0
    /\ keysMade = 0
    /\ key = 0
    /\ fileExists = FALSE
    /\ layers = <<>>
    /\ wpc = "none"
    /\ exitPath = "none"
    /\ sealCalls = 0
    /\ everKilled = FALSE
    /\ trail = <<>>
    /\ keyFault = NoFault
    /\ crash = NoCrash

\* A process holds the store open as a plain database (the state between
\* the unseal and the re-seal, which the table specification runs in).
StoreOpen ==
    /\ keyFile = 1
    /\ keysMade = 1
    /\ key = 1
    /\ fileExists = TRUE
    /\ layers = <<>>
    /\ wpc = "cmd"
    /\ exitPath = "none"
    /\ sealCalls = 0
    /\ everKilled = FALSE
    /\ trail = <<>>
    /\ keyFault = NoFault
    /\ crash = NoCrash

\* load_encryption_key without the test key_file.exists().
load_encryption_key_AlwaysGenerates ==
    /\ wpc = "none"
    /\ NAMESPACE < MaxRuns
    /\ NAMESPACE' = NAMESPACE + 1
    /\ key' = keysMade + 1
    /\ keyFile' = keysMade + 1
    /\ keysMade' = keysMade + 1
    /\ wpc' = "loaded"
    /\ exitPath' = "none"
    /\ sealCalls' = 0
    /\ keyFault' = NoFault
    /\ crash' = Started(crash)
    /\ UNCHANGED <<fileExists, layers, everKilled, trail, rows, clock, last,
                   profileMap, insertOrder, saved, listed, connVars,
                   cliVars>>

\* vpn.py 11-13 with utils.load_encryption_key: a process starts, draws its
\* NAMESPACE, and reads secret.key or, when the file is absent, generates a
\* key and writes it.
load_encryption_key ==
    /\ wpc = "none"
    /\ NAMESPACE < MaxRuns
    /\ NAMESPACE' = NAMESPACE + 1
    /\ IF keyFile # 0
         THEN /\ key' = keyFile
              /\ UNCHANGED <<keyFile, keysMade>>
         ELSE /\ key' = keysMade + 1
              /\ keyFile' = keysMade + 1
              /\ keysMade' = keysMade + 1
    /\ wpc' = "loaded"
    /\ exitPath' = "none"
    /\ sealCalls' = 0
    /\ keyFault' = NoFault
    /\ crash' = Started(crash)
    /\ UNCHANGED <<fileExists, layers, everKilled, trail, rows, clock, last,
                   profileMap, insertOrder, saved, listed, connVars,
                   cliVars>>

\* load_encryption_key_raises with the exception swallowed: the module goes
\* on with the empty key of line 56.
load_encryption_key_raises_Swallowed ==
    /\ wpc = "none"
    /\ NAMESPACE < MaxRuns
    /\ NAMESPACE' = NAMESPACE + 1
    /\ \E fault \in KeyFaults :
         /\ (fault = "unwritable") = (keyFile = 0)
         /\ keysMade' = IF fault = "unwritable" THEN keysMade + 1
                        ELSE keysMade
         /\ keyFault' = [fault |-> fault, fileExists |-> fileExists,
                         layers |-> layers, rows |-> rows]
    /\ crash' = Started(crash)
    /\ key' = 0
    /\ wpc' = "loaded"
    /\ exitPath' = "none"
    /\ sealCalls' = 0
    /\ UNCHANGED <<keyFile, fileExists, layers, everKilled, trail, rows,
                   clock, last, profileMap, insertOrder, saved, listed,
                   connVars, cliVars>>

\* vpn.py 11-12 when the key cannot be had.  An existing secret.key cannot
\* be read, or holds bytes Fernet(key) rejects; an absent one cannot be
\* written (the key generate_key() returned is lost with the process).
\* The exception leaves the module while it is imported: main() and the
\* wrapper of secure() are never called, and the process is over.
load_encryption_key_raises ==
    /\ wpc = "none"
    /\ NAMESPACE < MaxRuns
    /\ NAMESPACE' = NAMESPACE + 1
    /\ \E fault \in KeyFaults :
         /\ (fault = "unwritable") = (keyFile = 0)
         /\ keysMade' = IF fault = "unwritable" THEN keysMade + 1
                        ELSE keysMade
         /\ keyFault' = [fault |-> fault, fileExists |-> fileExists,
                         layers |-> layers, rows |-> rows]
    /\ crash' = Started(crash)
    /\ key' = 0
    /\ wpc' = "none"
    /\ exitPath' = "import_error"
    /\ sealCalls' = 0
    /\ UNCHANGED <<keyFile, fileExists, layers, everKilled, trail, rows,
                   clock, last, profileMap, insertOrder, saved, listed,
                   connVars, cliVars>>

\* secure.wrapper without the unseal before the try block.
secure_enter_NoUnseal ==
    /\ wpc = "loaded"
    /\ layers' = layers
    /\ wpc' = "func"
    /\ UNCHANGED <<keyFile, keysMade, key, fileExists, exitPath, sealCalls,
                   everKilled, trail, keyFault, crash, storeVars,
                   connVars, cliVars>>

\* secure.wrapper with a decrypt_file that lets InvalidToken out: the
\* exception leaves the wrapper before the try block, and the process ends
\* without the command and without the seal.
secure_enter_InvalidTokenRaises ==
    /\ wpc = "loaded"
    /\ IF fileExists /\ InvalidToken(layers, key)
         THEN /\ wpc' = "none"
              /\ exitPath' = "unseal_error"
              /\ layers' = layers
         ELSE /\ wpc' = "func"
              /\ exitPath' = exitPath
              /\ layers' = IF fileExists THEN decrypt_file(layers, key)
                           ELSE layers
    /\ UNCHANGED <<keyFile, keysMade, key, fileExists, sealCalls,
                   everKilled, trail, keyFault, crash, storeVars,
                   connVars, cliVars>>

\* secure.wrapper before the try: `if is_file_exists(db_path):
\* encryption.decrypt_file(db_path)`.
secure_enter ==
    /\ wpc = "loaded"
    /\ layers' = IF fileExists THEN decrypt_file(layers, key) ELSE layers
    /\ wpc' = "func"
    /\ UNCHANGED <<keyFile, keysMade, key, fileExists, exitPath, sealCalls,
                   everKilled, trail, keyFault, crash, storeVars,
                   connVars, cliVars>>

\* VPNCLI(path): SQLiteManager.__post_init__ connects, which creates an
\* absent file, and runs CREATE TABLE IF NOT EXISTS, which raises
\* sqlite3.DatabaseError on a file that is not a plain database.
func_open_store ==
    /\ wpc = "func"
    /\ IF fileExists /\ layers # <<>>
         THEN /\ wpc' = "finally"
              /\ exitPath' = "exception"
         ELSE /\ wpc' = "cmd"
              /\ exitPath' = exitPath
    /\ fileExists' = TRUE
    /\ UNCHANGED <<keyFile, keysMade, key, layers, sealCalls, everKilled,
                   trail, keyFault, crash, storeVars, connVars, cliVars>>

\* A keyboard interrupt is delivered before the store is opened.
func_interrupted_early ==
    /\ wpc = "func"
    /\ wpc' = "finally"
    /\ exitPath' = "interrupt"
    /\ UNCHANGED <<keyFile, keysMade, key, fileExists, layers, sealCalls,
                   everKilled, trail, keyFault, crash, storeVars,
                   connVars, cliVars>>

\* The ways the wrapped run_vpn_cli is left: it returns, an exception
\* leaves it, sys.exit is called in it, a keyboard interrupt is delivered.
ExitPaths == {"return", "exception", "sysexit", "interrupt"}

\* The command runs on the open store, with at most one changing statement
\* on the table, and leaves the wrapped function one way or another.
func_command ==
    /\ wpc = "cmd"
    /\ \/ UNCHANGED <<rows, last, profileMap, insertOrder>>
       \/ \E config_name \in Names, f \in Profiles :
            insert_config(config_name, f)
       \/ \E config_name \in Names : delete_config(config_name)
    /\ \E e \in ExitPaths : exitPath' = e
    /\ wpc' = "finally"
    /\ UNCHANGED <<keyFile, keysMade, key, fileExists, layers, sealCalls,
                   everKilled, trail, keyFault, crash, NAMESPACE, clock, saved,
                   listed, connVars, cliVars>>

\* secure.wrapper with the `finally` left out: the seal follows the call and
\* is reached only when the function returns.
secure_finally_OnReturnOnly ==
    /\ wpc = "finally"
    /\ IF exitPath = "return"
         THEN /\ sealCalls' = sealCalls + 1
              /\ layers' = IF fileExists THEN encrypt_file(layers, key)
                           ELSE layers
         ELSE UNCHANGED <<sealCalls, layers>>
    /\ wpc' = "none"
    /\ crash' = Completed(crash)
    /\ UNCHANGED <<keyFile, keysMade, key, fileExists, exitPath, everKilled,
                   trail, keyFault, storeVars, connVars, cliVars>>

\* secure.wrapper, `finally: encryption.encrypt_file(db_path)`: run on every
\* way out of the try block; on an absent file open() raises
\* FileNotFoundError and nothing is written.  The process then exits.
secure_finally ==
    /\ wpc = "finally"
    /\ sealCalls' = sealCalls + 1
    /\ layers' = IF fileExists THEN encrypt_file(layers, key) ELSE layers
    /\ wpc' = "none"
    /\ crash' = Completed(crash)
    /\ UNCHANGED <<keyFile, keysMade, key, fileExists, exitPath, everKilled,
                   trail, keyFault, storeVars, connVars, cliVars>>

\* The process is killed (SIGKILL, power loss): no finally clause runs.
kill ==
    /\ wpc # "none"
    /\ wpc' = "none"
    /\ exitPath' = "killed"
    /\ everKilled' = TRUE
    /\ crash' = IF fileExists /\ layers = <<>>
                  THEN [state |-> "killed", rows |-> rows, key |-> key]
                  ELSE crash
    /\ UNCHANGED <<keyFile, keysMade, key, fileExists, layers, sealCalls,
                   trail, keyFault, storeVars, connVars, cliVars>>

\* secret.key is lost between two runs.
key_file_lost ==
    /\ wpc = "none"
    /\ keyFile # 0
    /\ keysMade < MaxKeys
    /\ keyFile' = 0
    /\ UNCHANGED <<keysMade, key, fileExists, layers, wpc, exitPath,
                   sealCalls, everKilled, trail, keyFault, crash, storeVars,
                   connVars, cliVars>>

\* ------------------------------------------------------------------------
\* The command `connect <vpn_type>` (cli.py: run, initialize_vpn,
\* load_config, get_vpn_paths, handle_vpn_actions; vpn.py: main)
\* ------------------------------------------------------------------------

\* config.ini as load_config and get_vpn_paths find it.
ConfigIniStates == {"missing", "no_path_section", "no_client_path", "ok"}

\* load_config (187-215) and get_vpn_paths (220-226): TRUE when one of
\* them calls sys.exit(1).  `manual`: -H, -U and -P are all given;
\* `hostGiven`: -H is given; `config`: the --config argument.
ConfigError(ini, manual, hostGiven, config) ==
    \/ ini = "missing"
    \/ ini = "no_path_section"
    \/ /\ ~manual
       /\ get_config(rows, config) = <<>>
       /\ ~hostGiven
    \/ ini = "no_client_path"

\* vpn_class(path=config_path, console=self.console) of initialize_vpn (257):
\* Forti.__init__(self, path, credential_path, console) has no default for
\* credential_path, so the call raises TypeError; Cisco.__init__ accepts it.
ConstructorRaises(vpn_type) == vpn_type = FORTI

\* handle_vpn_actions (268): settings.delay = max(args.delay, 0).
ClampDelay(d) == IF d > 0 THEN d ELSE 0

\* The command lines of `connect <vpn_type>` with the delay d, run against
\* each state of config.ini (-H, -U and -P all given implies -H given).
CommandLines(d) ==
    {a \in [ini : ConfigIniStates, manual : BOOLEAN, hostGiven : BOOLEAN,
            config : Names \cup {None}, delay : {d}] :
        a.manual => a.hostGiven}

\* No command line: connect() is called on an instance the caller built.
NoArgs ==
    [ini |-> "ok", manual |-> FALSE, hostGiven |-> FALSE, config |-> None,
     delay |-> 0]

\* load_config 200-213: self.data is the dictionary made of the arguments
\* when -H, -U and -P are all given, else what get_config finds under
\* --config (None when there is no such row).
load_config(a) ==
    IF a.manual
      THEN <<[config_name |-> a.config, host |-> "vpn.example.com",
              username |-> "alice", password |-> "s3cret"]>>
      ELSE get_config(rows, a.config)

\* run() for the action connect, up to the call of vpn_instance.connect():
\* a configuration error exits with status 1 (SystemExit passes `except
\* Exception` of main); the TypeError reaches handle_error, which exits
\* with status 1; otherwise settings.retries = args.retry and connect() is
\* entered on an instance of VPN_CLASSES[args.vpn_type], built from
\* self.data when there is one.  The -S/--save argument is absent.
cli_initialize_vpn ==
    /\ pc = "cli"
    /\ data' = IF args.ini \in {"missing", "no_path_section"} THEN data
               ELSE load_config(args)
    /\ IF ConfigError(args.ini, args.manual, args.hostGiven, args.config)
         THEN /\ cliError' = "config"
              /\ exitStatus' = <<EXIT_ERROR>>
              /\ pc' = "Exited"
              /\ delay' = delay
         ELSE IF ConstructorRaises(variant)
           THEN /\ cliError' = "unexpected"
                /\ exitStatus' = <<EXIT_ERROR>>
                /\ pc' = "Exited"
                /\ delay' = delay
           ELSE /\ cliError' = "none"
                /\ exitStatus' = exitStatus
                /\ pc' = "Idle"
                /\ delay' = ClampDelay(args.delay)
    /\ UNCHANGED <<variant, retries, attempt, invocations, slept, statusLog,
                   queries, probeLog, pings, clientLog, verified, report,
                   path, disconnectLog, helperLog, caller, args, storeVars, vaultVars>>

\* The status main() leaves with once connect() is over: connect() returns
\* None whatever its outcome, run_vpn_cli returns and the interpreter exits
\* with 0; an exception out of connect() reaches handle_error: sys.exit(1).
ExitStatusAfter(position) ==
    IF position = "Raised" THEN EXIT_ERROR ELSE EXIT_OK

cli_exit ==
    /\ caller = "cli"
    /\ pc \in Terminal
    /\ exitStatus' = <<ExitStatusAfter(pc)>>
    /\ pc' = "Exited"
    /\ UNCHANGED <<variant, retries, delay, attempt, invocations, slept,
                   statusLog, queries, probeLog, pings, clientLog, verified,
                   report, path, disconnectLog, helperLog, caller, cliError, args, data,
                   storeVars, vaultVars>>

\* ------------------------------------------------------------------------
\* Specification of one connect: a call on an adapter instance of either
\* class with any retry budget, or the command `connect` of the CLI.
\* ------------------------------------------------------------------------

InitConnect ==
    /\ variant \in VPN_CLASSES
    /\ retries \in 0..MaxRetries
    /\ delay \in Delays
    /\ caller \in {"api", "cli"}
    /\ pc = IF caller = "cli" THEN "cli" ELSE "Idle"
    /\ attempt = 0
    /\ invocations = 0
    /\ slept = <<>>
    /\ statusLog = <<>>
    /\ queries = <<>>
    /\ probeLog = <<>>
    /\ pings = <<>>
    /\ clientLog = <<>>
    /\ verified = "none"
    /\ report = "none"
    /\ path = <<"Idle">>
    /\ disconnectLog = <<>>
    /\ helperLog = <<>>
    /\ cliError = "none"
    /\ exitStatus = <<>>
    /\ args \in IF caller = "cli" THEN CommandLines(delay)
                 ELSE {[NoArgs EXCEPT !.delay = delay]}
    /\ data = <<>>
    /\ rows \in {<<>>, <<OfficeRow>>, <<OfficeRow, HomeRow>>}
    /\ NAMESPACE = 0
    /\ clock = 0
    /\ last = NoStatement
    /\ profileMap = MapOf(rows)
    /\ insertOrder = NamesOf(rows)
    /\ listed = NoListing
    /\ saved = NoSave
    /\ NoProcess

NextConnect ==
    \/ cli_initialize_vpn
    \/ connect_entry
    \/ Forti_terminate
    \/ connect_probe
    \/ connect_exhausted
    \/ connect_invoke
    \/ connect_verify
    \/ connect_retry
    \/ disconnect
    \/ cli_exit

SpecConnect == InitConnect /\ [][NextConnect]_vars

\* The same with the program running on: the interpreter executes the next
\* statement whenever there is one.  A step that is waiting for a command
\* that never exits is no step at all.
SpecConnectLive == SpecConnect /\ WF_vars(NextConnect)

\* ------------------------------------------------------------------------
\* Claims about connect()
\* ------------------------------------------------------------------------

\* Where the connect() call is or ended (the process exit keeps it).
Outcome == path[Len(path)]
Ended == Outcome \in Terminal

All(log, v) == \A i \in 1..Len(log) : log[i] = v

\* The client ran to an exit code or a timeout every time it was started.
ClientAlwaysRan == \A i \in 1..Len(clientLog) : clientLog[i] # "nostart"

\* C3: for both adapter variants, connect() reports "connected" for an
\* attempt only if a status() call made after that attempt's client
\* invocation returned true.
C3_ConnectedOnlyIfVerified ==
    report = "connected" => verified = "true"

\* C4: if status() returns true at the entry of connect(), the call ends in
\* Connected, reported as already connected, without a readiness probe and
\* without a client connect invocation, whatever retries and delay are.
C4_AlreadyConnectedShortCircuit ==
    (Len(statusLog) >= 1 /\ statusLog[1])
        => /\ Outcome = "Connected"
           /\ report = "already_connected"
           /\ path = <<"Idle", "Connected">>
           /\ probeLog = <<>>
           /\ clientLog = <<>>
           /\ invocations = 0
           /\ slept = <<>>

C4_Witness ==
    /\ statusLog = <<TRUE>>
    /\ Outcome = "Connected"
    /\ retries = MaxRetries
    /\ delay = DEFAULT_DELAY

\* C5: with retries = N, a probe that always succeeds and a status() that is
\* false at entry and after every connect invocation, one connect call
\* invokes the client connect command exactly N times, checks status after
\* each of them and ends in Failed, reported as exhausted connect attempts.
C5_RetryExhaustion ==
    (/\ Ended
     /\ ClientAlwaysRan
     /\ All(probeLog, TRUE)
     /\ All(statusLog, FALSE))
        => /\ invocations = retries
           /\ Len(statusLog) = 1 + retries
           /\ Outcome = "Failed"
           /\ retries > 0 => report = "attempts_failed"

\* C6: when the readiness probe returns false on every call, a connect call
\* never invokes the client connect command and ends in Failed with a report
\* that differs from the one given when verified connect attempts are
\* exhausted ("attempts_failed").
C6_NetworkGate ==
    (/\ Ended
     /\ Len(probeLog) >= 1
     /\ All(probeLog, FALSE))
        => /\ invocations = 0
           /\ Outcome = "Failed"
           /\ report # "attempts_failed"

\* The scenario of C7: Cisco, retries = 2, delay = 0, every probe succeeds,
\* every client connect command exits 0.
C7_Scenario ==
    /\ variant = CISCO
    /\ retries = 2
    /\ delay = 0
    /\ Ended
    /\ All(probeLog, TRUE)
    /\ All(clientLog, "exit0")

\* C7 as stated: status() false on its first call and true on its second
\* call within the connect call gives Connected after exactly 2 client
\* connect invocations.
C7_Original ==
    (C7_Scenario /\ Len(statusLog) >= 2 /\ ~statusLog[1] /\ statusLog[2])
        => /\ Outcome = "Connected"
           /\ invocations = 2
           /\ path = <<"Idle", "ProbingNetwork", "Invoking", "Verifying",
                       "Retrying", "ProbingNetwork", "Invoking", "Verifying",
                       "Connected">>

\* C7 amended: the first status() call of the connect call is the entry
\* check.  False on the first call and true on the second gives Connected
\* after exactly 1 client connect invocation; false on the first two calls
\* and true on the third gives Connected after exactly 2, along the path of
\* the scenario.
C7_EndToEnd ==
    /\ (C7_Scenario /\ Len(statusLog) >= 2 /\ ~statusLog[1] /\ statusLog[2])
         => /\ Outcome = "Connected"
            /\ report = "connected"
            /\ invocations = 1
            /\ path = <<"Idle", "ProbingNetwork", "Invoking", "Verifying",
                        "Connected">>
    /\ (C7_Scenario /\ Len(statusLog) >= 3 /\ ~statusLog[1] /\ ~statusLog[2]
          /\ statusLog[3])
         => /\ Outcome = "Connected"
            /\ report = "connected"
            /\ invocations = 2
            /\ path = <<"Idle", "ProbingNetwork", "Invoking", "Verifying",
                        "Retrying", "ProbingNetwork", "Invoking", "Verifying",
                        "Connected">>

C7_Witness ==
    /\ C7_Scenario
    /\ statusLog = <<FALSE, FALSE, TRUE>>
    /\ invocations = 2

\* C8: no failure of the external client process during a connect call
\* (non-zero exit, timeout, executable failing to start) leaves connect() as
\* an exception: the call ends in Connected or Failed.
C8_NoExceptionEscapes ==
    Outcome # "Raised"

\* C9: a connect command that ends in Connected exits with a success status;
\* one that ends in Failed exits with a non-zero status that differs from
\* the status of a configuration error.
C9_ExitStatus ==
    (caller = "cli" /\ cliError = "none" /\ exitStatus # <<>>)
        => /\ Outcome = "Connected" => exitStatus = <<EXIT_OK>>
           /\ Outcome = "Failed" =>
                (exitStatus # <<EXIT_OK>> /\ exitStatus # <<EXIT_ERROR>>)

\* self.data is a row of the table (the dictionary made of -H, -U and -P has
\* no vpn_type).
FromStore == data # <<>> /\ "vpn_type" \in DOMAIN data[1]

\* C22: when the command connect is driven from a stored profile, the
\* adapter that performs the connection is the one of the vpn_type stored
\* in that profile.
C22_AdapterMatchesProfile ==
    (caller = "cli" /\ FromStore /\ queries # <<>>)
        => data[1].vpn_type = variant

\* C23: a connect command whose --config names no row of the table, and
\* which does not give -H, -U and -P all three, ends as a configuration
\* error and never reaches the adapter: no state query, no ping and no
\* client connect command is run.
C23_MissingProfileNotFound ==
    (/\ caller = "cli"
     /\ pc # "cli"
     /\ ~args.manual
     /\ get_config(rows, args.config) = <<>>)
        => /\ cliError = "config"
           /\ exitStatus = <<EXIT_ERROR>>
           /\ queries = <<>>
           /\ pings = <<>>
           /\ invocations = 0

\* The is_network_ready() calls that did not answer True.
FailedProbes == Cardinality({i \in 1..Len(pings) : pings[i] # "exit0"})

\* C24: for either adapter and any retry budget, the failed readiness
\* probes and the client connect commands of one connect() call together
\* never exceed the budget, and neither does the attempt counter.
C24_AttemptBudget ==
    /\ FailedProbes + invocations <= retries
    /\ attempt <= retries

\* A Forti call with a budget of two spent it on one failed probe and one
\* refused client command.
C24_Witness ==
    /\ variant = FORTI
    /\ retries = 2
    /\ Outcome = "Failed"
    /\ probeLog = <<FALSE, TRUE>>
    /\ clientLog = <<"nonzero">>
    /\ attempt = retries

\* C25: for any delay the caller supplies, negative ones included, every
\* wait between two attempts of a connect() call is max(delay, 0) seconds.
C25_DelayClamped ==
    \A i \in 1..Len(slept) :
        /\ slept[i] >= 0
        /\ slept[i] = IF args.delay > 0 THEN args.delay ELSE 0

\* C26: every connect() call comes to an end even when the client or the
\* readiness probe never responds.  (A call an exception leaves counts as
\* ended here, and so does a command that exits before it calls connect().)
C26_ConnectTerminates == <>(Ended \/ pc = "Exited")

\* C27: every connect() call that returns without a connection has printed
\* the final attempts-failed message, whatever the cause.
C27_FailureReported == Outcome = "Failed" => report = "attempts_failed"

\* C28: is_network_ready returns False, and no exception leaves it, whenever
\* its ping exits non-zero or cannot be started.
C28_ProbeNeverRaises ==
    \A i \in 1..Len(pings) :
        pings[i] \in {"nonzero", "nostart"}
            => (i <= Len(probeLog) /\ ~probeLog[i])

\* C29: for both adapters, status() returns True only when the state query
\* exits 0 with the marker in its output; when the query exits non-zero,
\* status() prints the diagnostic and returns False.
C29_StatusResult ==
    /\ Len(statusLog) <= Len(queries)
    /\ \A i \in 1..Len(queries) :
         /\ (i <= Len(statusLog) /\ statusLog[i])
               => queries[i].query = "marker"
         /\ queries[i].query = "nonzero"
               => /\ i <= Len(statusLog)
                  /\ ~statusLog[i]
                  /\ queries[i].printed = "failed_to_check"

\* A Cisco call whose first state query exited non-zero and whose query
\* after the client command found the marker.
C29_Witness ==
    /\ variant = CISCO
    /\ Len(queries) = 2
    /\ queries[1].query = "nonzero"
    /\ queries[2].query = "marker"
    /\ statusLog = <<FALSE, TRUE>>
    /\ Outcome = "Connected"

\* C30: for both adapters, disconnect() runs the disconnect command exactly
\* once whatever its outcome; a non-zero exit is printed, the command is not
\* run again and the method returns.
C30_DisconnectOnce ==
    /\ Len(disconnectLog) <= 1
    /\ pc = "Disconnected" => Len(disconnectLog) = 1
    /\ \A i \in 1..Len(disconnectLog) :
         disconnectLog[i].outcome = "nonzero"
             => /\ disconnectLog[i].printed = "failed_to_disconnect"
                /\ pc = "Disconnected"

\* disconnect() returned on a Forti instance after its command exited
\* non-zero.
C30_Witness ==
    /\ variant = FORTI
    /\ pc = "Disconnected"
    /\ Outcome = "Connected"
    /\ disconnectLog[1].outcome = "nonzero"

\* C31: a failure of open() or terminate() inside a connect() call (the
\* helper command exits non-zero or cannot be started) is printed and the
\* method returns, so that the call goes on with its remaining attempts.
C31_HelperFailureNotFatal ==
    \A i \in 1..Len(helperLog) :
        helperLog[i].outcome \in {"nonzero", "nostart"}
            => /\ helperLog[i].printed \notin {"none", "opened"}
               /\ helperLog[i].returned

\* C33: a connect() call waits for the delay only when attempts remain:
\* no sleep() is made in the attempt that exhausts the budget, whether that
\* attempt ended in a failed readiness probe or in a failed verification.
\* (Stated for the delays sleep() accepts.)
C33_NoWaitAfterLastAttempt ==
    [][(delay >= 0 /\ Len(slept') > Len(slept))
          => attempt < retries - 1]_vars

\* ------------------------------------------------------------------------
\* Specification of the profile table: any sequence of statements, by any
\* number of processes up to MaxRuns.
\* ------------------------------------------------------------------------

\* No connect call is in progress.
NoConnect ==
    /\ variant = CISCO
    /\ retries = 0
    /\ delay = 0
    /\ pc = "Exited"
    /\ attempt = 0
    /\ invocations = 0
    /\ slept = <<>>
    /\ statusLog = <<>>
    /\ queries = <<>>
    /\ probeLog = <<>>
    /\ pings = <<>>
    /\ clientLog = <<>>
    /\ verified = "none"
    /\ report = "none"
    /\ path = <<"Idle">>
    /\ disconnectLog = <<>>
    /\ helperLog = <<>>
    /\ caller = "api"
    /\ cliError = "none"
    /\ exitStatus = <<>>
    /\ args = NoArgs
    /\ data = <<>>

InitStore ==
    /\ NoConnect
    /\ StoreOpen
    /\ rows = <<>>
    /\ NAMESPACE = 1
    /\ clock = 0
    /\ last = NoStatement
    /\ profileMap = MapOf(rows)
    /\ insertOrder = NamesOf(rows)
    /\ listed = NoListing
    /\ saved = NoSave

NextStore ==
    \/ call_insert_config
    \/ call_update_config
    \/ call_delete_config
    \/ tick
    \/ new_process

SpecStore == InitStore /\ [][NextStore]_vars

\* ------------------------------------------------------------------------
\* Claims about the profile table
\* ------------------------------------------------------------------------

\* C10: in every reachable state of the table config_name is unique; an
\* insert_config with a config_name that already exists raises an error,
\* adds no row and leaves every field of the existing row unchanged.
C10_Uniqueness ==
    /\ \A i, j \in 1..Len(rows) :
         rows[i].config_name = rows[j].config_name => i = j
    /\ (last.op = "insert" /\ get_config(last.before, last.config_name) # <<>>)
         => /\ last.raised
            /\ rows = last.before

\* A duplicate insert was tried by a later process, whose id for the name
\* differs from the stored row's.
C10_Witness ==
    /\ last.op = "insert"
    /\ last.raised
    /\ get_config(rows, last.config_name) # <<>>
    /\ get_config(rows, last.config_name)[1].id
         # generate_uuid5(NAMESPACE, last.config_name)
    /\ Len(rows) = 2

\* C11: delete_config of a config_name that is not in the table raises no
\* error and leaves every row unchanged; after any delete_config the name is
\* absent and the other rows are as they were, so that deleting the same name
\* once more is a delete of an absent name and yields the same table.
C11_IdempotentDelete ==
    last.op = "delete"
        => /\ ~last.raised
           /\ get_config(rows, last.config_name) = <<>>
           /\ rows = SelectSeq(last.before,
                               LAMBDA r : r.config_name # last.config_name)
           /\ get_config(last.before, last.config_name) = <<>>
                => rows = last.before

\* A name that is not in the table was deleted from a table that holds
\* another profile.
C11_Witness ==
    /\ last.op = "delete"
    /\ get_config(last.before, last.config_name) = <<>>
    /\ Len(rows) = 1
    /\ rows = last.before

\* C14: the table behaves as a map from config_name to record: after any
\* sequence of insert, update and delete statements, failed ones included,
\* get_config(name) returns exactly the record the last statement that
\* succeeded on that name left, or None; a statement that raised left the
\* table as it was.
C14_StoreIsAMap ==
    /\ \A n \in Names : get_config(rows, n) = profileMap[n]
    /\ last.raised => rows = last.before

\* An update that raised on a table of two profiles, one of them updated
\* before.
C14_Witness ==
    /\ last.op = "update"
    /\ last.raised
    /\ Len(rows) = 2
    /\ \E i \in 1..Len(rows) : rows[i].updated_at # rows[i].created_at
    /\ \A n \in Names : profileMap[n] # <<>>

\* C16: the id of a profile is a function of its config_name alone: the id
\* a run computes for a stored name is the id the row was stored under, by
\* whichever run it was inserted.
C16_DeterministicId ==
    \A i \in 1..Len(rows) :
        rows[i].id = generate_uuid5(NAMESPACE, rows[i].config_name)

\* ------------------------------------------------------------------------
\* Specification of the listings: any sequence of statements and listings
\* by one process (the listings read neither the namespace nor the ids).
\* ------------------------------------------------------------------------

InitList == InitStore

NextList ==
    \/ call_insert_config
    \/ call_update_config
    \/ call_delete_config
    \/ call_get_all_configs
    \/ call_get_config_by_type
    \/ tick

SpecList == InitList /\ [][NextList]_vars

\* The stored profiles of a type, as the map has them, in insertion order.
StoredOfType(vpn_type) ==
    SelectSeq(insertOrder,
              LAMBDA n : profileMap[n][1].vpn_type = vpn_type)

\* C32: a listing returns the stored profiles in insertion order, also
\* after updates and deletes, and a listing by type returns exactly the
\* stored profiles of that type in the same relative order; each with the
\* record the latest statement on its name left.
C32_ListingOrder ==
    /\ listed.kind = "all" => NamesOf(listed.result) = insertOrder
    /\ listed.kind = "type"
          => NamesOf(listed.result) = StoredOfType(listed.vpn_type)
    /\ \A i \in 1..Len(listed.result) :
          <<listed.result[i]>> = profileMap[listed.result[i].config_name]

\* A listing by type that returned two profiles, the older one updated by
\* the latest statement, a second or more after it was stored.
C32_Witness ==
    /\ listed.kind = "type"
    /\ Len(listed.result) = 2
    /\ last.op = "update"
    /\ ~last.raised
    /\ last.config_name = insertOrder[1]
    /\ listed.result[1].updated_at[2] > listed.result[1].created_at[2]

\* ------------------------------------------------------------------------
\* Specification of the commands that write profiles: create, connect
\* --save and --delete in any order.  The namespace a command's process
\* draws gives the id of a row it inserts and nothing else, and is left the
\* same for all commands here.
\* ------------------------------------------------------------------------

InitProfiles == InitStore

NextProfiles ==
    \/ cmd_create
    \/ cmd_connect_save
    \/ cmd_delete
    \/ tick

SpecProfiles == InitProfiles /\ [][NextProfiles]_vars

\* ------------------------------------------------------------------------
\* Claims about the commands that write profiles
\* ------------------------------------------------------------------------

\* The latest command called save_config for a name that was in the table.
SavedOverExisting ==
    /\ saved.report # "none"
    /\ get_config(saved.before, saved.config_name) # <<>>

\* The host, user and password save_config was given are non-empty, as those
\* of a profile are.
SavedAProfile ==
    /\ saved.args.host # ""
    /\ saved.args.username # ""
    /\ saved.args.password # ""

\* C12: save_config under a config_name that exists, without the overwrite
\* flag, leaves the whole table unchanged, updated_at included, whatever it
\* was given, and for a profile (non-empty host, user and password) reports
\* the conflict.
C12_NoOverwriteWithoutForce ==
    (SavedOverExisting /\ ~saved.force)
        => /\ rows = saved.before
           /\ SavedAProfile => saved.report = "conflict"

\* A conflict on a table of two profiles, a second after the insert.
C12_Witness ==
    /\ SavedOverExisting
    /\ ~saved.force
    /\ saved.report = "conflict"
    /\ Len(rows) = 2
    /\ get_config(rows, saved.config_name)[1].host # saved.args.host
    /\ get_config(rows, saved.config_name)[1].created_at
         # CURRENT_TIMESTAMP

\* C13: save_config of a profile under a config_name that exists, with the
\* overwrite flag, replaces that row's host, username, password and
\* vpn_type by the values given and sets its updated_at to the time of the
\* call; the row's config_name, id and created_at, its place in the table
\* and every other row stay as they were.
C13_OverwriteReplacesFields ==
    (SavedOverExisting /\ saved.force /\ SavedAProfile)
        => /\ saved.report = "overwritten"
           /\ Len(rows) = Len(saved.before)
           /\ \A i \in 1..Len(rows) :
                IF rows[i].config_name = saved.config_name
                  THEN /\ rows[i].host = saved.args.host
                       /\ rows[i].username = saved.args.username
                       /\ rows[i].password = saved.args.password
                       /\ rows[i].vpn_type = saved.args.vpn_type
                       /\ rows[i].updated_at = <<"local", saved.at>>
                       /\ rows[i].id = saved.before[i].id
                       /\ rows[i].config_name = saved.before[i].config_name
                       /\ rows[i].created_at = saved.before[i].created_at
                  ELSE rows[i] = saved.before[i]

\* An overwrite, a second after the insert, of the first of two profiles
\* by other values.
C13_Witness ==
    /\ SavedOverExisting
    /\ saved.force
    /\ saved.report = "overwritten"
    /\ Len(rows) = 2
    /\ rows[1].config_name = saved.config_name
    /\ rows[1].host # saved.before[1].host
    /\ rows[1].created_at = <<"utc", 0>>
    /\ rows[1].updated_at = <<"local", 1>>

\* C15: in every state of the table reached through create, connect --save
\* (both through save_config, with or without the overwrite flag) and
\* delete, every row has a non-empty host, username, password and
\* vpn_type.
C15_NoEmptyField ==
    \A i \in 1..Len(rows) :
        /\ rows[i].host \notin {"", None}
        /\ rows[i].username \notin {"", None}
        /\ rows[i].password \notin {"", None}
        /\ rows[i].vpn_type \notin {"", None}

\* A blank answer at a prompt of create was refused while a profile is
\* stored.
C15_Witness ==
    /\ saved.report = "fields_required"
    /\ saved.args.password = ""
    /\ saved.force
    /\ Len(rows) = 2

\* ------------------------------------------------------------------------

InitVault ==
    /\ NoConnect
    /\ NoProcess
    /\ rows = <<>>
    /\ NAMESPACE = 0
    /\ clock = 0
    /\ last = NoStatement
    /\ profileMap = MapOf(rows)
    /\ insertOrder = NamesOf(rows)
    /\ listed = NoListing
    /\ saved = NoSave

NextVault ==
    \/ load_encryption_key
    \/ load_encryption_key_raises
    \/ secure_enter
    \/ func_open_store
    \/ func_interrupted_early
    \/ func_command
    \/ secure_finally
    \/ kill
    \/ key_file_lost

SpecVault == InitVault /\ [][NextVault]_vars

\* ------------------------------------------------------------------------
\* Claims about the sealing of the store file
\* ------------------------------------------------------------------------

\* The process left the wrapper (it was not killed inside it).
WrapperExited == wpc = "none" /\ exitPath \in ExitPaths

\* C1: for every command run through secure(), encrypt_file is executed on
\* the store file before the wrapper exits, on every exit path of the
\* wrapped operation: return, exception, sys.exit, keyboard interrupt.
C1_SealedOnEveryExitPath ==
    WrapperExited
        => /\ sealCalls = 1
           /\ fileExists => (layers # <<>> /\ Last(layers) = key)

C1_Witness ==
    /\ WrapperExited
    /\ exitPath = "interrupt"
    /\ fileExists
    /\ rows # <<>>
    /\ layers = <<key>>

\* C2: as long as no process was killed, the store file is in decrypted
\* form only between the unseal at the start of a command and the re-seal at
\* its end; whenever no command is in progress it is encrypted.
C2_EncryptedAtRest ==
    (~everKilled /\ fileExists /\ layers = <<>>)
        => wpc \in {"func", "cmd", "finally"}

\* The store at rest after a second command, one that raised, has run.
C2_Witness ==
    /\ ~everKilled
    /\ wpc = "none"
    /\ fileExists
    /\ layers # <<>>
    /\ NAMESPACE >= 2
    /\ exitPath = "exception"
    /\ rows # <<>>

\* C20: a run generates and persists a key only when secret.key is absent
\* and never overwrites an existing secret.key, and a run that finds the
\* file uses exactly the key it holds; the file therefore always holds the
\* latest key generated, and as long as it is not lost no second key is
\* generated.
C20_KeyGeneratedOnce ==
    [][/\ keysMade' # keysMade
            => /\ keyFile = 0
               /\ \/ keyFile' = keysMade' /\ key' = keyFile'
                  \/ keyFault'.fault = "unwritable" /\ wpc' = "none"
       /\ (keyFile # 0 /\ keyFile' # keyFile)
            => (keyFile' = 0 /\ keysMade' = keysMade)
       /\ (wpc = "none" /\ wpc' = "loaded" /\ keyFile # 0)
            => (key' = keyFile /\ keyFile' = keyFile
                /\ keysMade' = keysMade)]_vars

\* A second run has loaded the key the first run generated, with the store
\* sealed under it.
C20_Witness ==
    /\ NAMESPACE >= 2
    /\ wpc = "loaded"
    /\ keysMade = 1
    /\ key = keyFile
    /\ layers = <<key>>

\* C21: when the key cannot be read, written or used (secret.key unreadable,
\* unwritable or malformed), the run is over before the store file is
\* unsealed, opened or re-sealed: the process is gone, no encrypt_file call
\* was made, the store file is as the run found it, the table is untouched
\* and no connect() call was entered.
C21_KeyFaultAborts ==
    keyFault.fault # "none"
        => /\ wpc = "none"
           /\ exitPath = "import_error"
           /\ sealCalls = 0
           /\ fileExists = keyFault.fileExists
           /\ layers = keyFault.layers
           /\ rows = keyFault.rows
           /\ NoConnect

\* A run found the key file malformed while the store, sealed by an earlier
\* run, held a profile.
C21_Witness ==
    /\ keyFault.fault = "malformed"
    /\ exitPath = "import_error"
    /\ fileExists
    /\ layers # <<>>
    /\ rows # <<>>

\* ------------------------------------------------------------------------
\* Specification of an Encryption object: one key, one file of any content
\* up to MaxLayers layers (or no file), and up to MaxCalls calls of
\* encrypt_file, decrypt_file and is_encrypted in any order.
\* ------------------------------------------------------------------------

\* The contents of at most n layers, over keys 0..MaxKeys.
RECURSIVE Contents(_)
Contents(n) ==
    IF n = 0 THEN {<<>>}
    ELSE Contents(n - 1) \cup
         {Append(c, k) : c \in {d \in Contents(n - 1) : Len(d) = n - 1},
                        k \in 0..MaxKeys}

InitCipher ==
    /\ NoConnect
    /\ rows = <<>>
    /\ NAMESPACE = 1
    /\ clock = 0
    /\ last = NoStatement
    /\ profileMap = MapOf(rows)
    /\ insertOrder = NamesOf(rows)
    /\ listed = NoListing
    /\ saved = NoSave
    /\ key \in 1..MaxKeys
    /\ keyFile = key
    /\ keysMade = key
    /\ fileExists \in BOOLEAN
    /\ layers \in IF fileExists THEN Contents(MaxLayers) ELSE {<<>>}
    /\ wpc = "none"
    /\ exitPath = "none"
    /\ sealCalls = 0
    /\ everKilled = FALSE
    /\ trail = <<>>
    /\ keyFault = NoFault
    /\ crash = NoCrash

NextCipher ==
    \/ call_encrypt_file
    \/ call_decrypt_file
    \/ call_is_encrypted

SpecCipher == InitCipher /\ [][NextCipher]_vars

\* ------------------------------------------------------------------------
\* Claims about the Encryption object
\* ------------------------------------------------------------------------

\* Call i of the trail is a call of op on a file that exists.
Did(i, op) == trail[i].op = op /\ trail[i].existed

\* C17: decrypt_file on a file whose bytes do not decrypt under the key
\* (bytes that are no token, a damaged token, a token of another key)
\* returns without an exception and leaves the bytes as they were.
C17_UnsealFailsSilently ==
    \A i \in 1..Len(trail) :
        (Did(i, "decrypt_file") /\ InvalidToken(trail[i].before, key))
            => /\ trail[i].result = "None"
               /\ trail[i].after = trail[i].before

\* decrypt_file was called twice on a token of another key.
C17_Witness ==
    /\ Len(trail) >= 2
    /\ Did(1, "decrypt_file")
    /\ trail[1].before # <<>>
    /\ Last(trail[1].before) \notin {0, key}
    /\ Did(2, "decrypt_file")
    /\ layers = trail[1].before

\* C18 as stated: for any content C, decrypt_file followed by encrypt_file
\* under the same key gives C back.
C18_Original ==
    \A i \in 1..Len(trail) - 1 :
        (Did(i, "decrypt_file") /\ Did(i + 1, "encrypt_file"))
            => trail[i + 1].after = trail[i].before

\* C18 amended: for any content C, encrypt_file followed by decrypt_file
\* under the same key gives C back.  decrypt_file followed by encrypt_file
\* gives, when C does not decrypt under the key, the token of C, which is
\* not C, and, when it does, a token under the key of the same plaintext.
C18_RoundTrip ==
    \A i \in 1..Len(trail) - 1 :
        /\ (Did(i, "encrypt_file") /\ Did(i + 1, "decrypt_file"))
             => trail[i + 1].after = trail[i].before
        /\ (Did(i, "decrypt_file") /\ Did(i + 1, "encrypt_file"))
             => IF InvalidToken(trail[i].before, key)
                  THEN /\ trail[i + 1].after # trail[i].before
                       /\ Front(trail[i + 1].after) = trail[i].before
                       /\ Last(trail[i + 1].after) = key
                  ELSE /\ ~InvalidToken(trail[i + 1].after, key)
                       /\ Front(trail[i + 1].after)
                            = Front(trail[i].before)

\* A token of another key was sealed and unsealed again, then unsealed once
\* more without effect.
C18_Witness ==
    /\ Len(trail) = 3
    /\ Did(1, "encrypt_file")
    /\ Did(2, "decrypt_file")
    /\ Did(3, "decrypt_file")
    /\ trail[1].before # <<>>
    /\ Last(trail[1].before) \notin {0, key}
    /\ layers = trail[1].before

\* C19: is_encrypted returns True exactly when the file exists and its
\* bytes decrypt under the key (decrypt_file would change them), returns
\* False without an exception for bytes that are no token, for a token of
\* another key and for a file that cannot be read, and writes nothing.
C19_IsEncryptedProbe ==
    \A i \in 1..Len(trail) :
        trail[i].op = "is_encrypted"
            => /\ trail[i].result \in {"True", "False"}
               /\ trail[i].result = "True"
                    <=> (/\ trail[i].existed
                         /\ decrypt_file(trail[i].before, key)
                              # trail[i].before)
               /\ trail[i].after = trail[i].before

\* The probe said False for a token of another key and True once the file
\* was sealed under the object's key.
C19_Witness ==
    /\ Len(trail) = 3
    /\ trail[1].op = "is_encrypted"
    /\ trail[1].result = "False"
    /\ trail[1].before # <<>>
    /\ Last(trail[1].before) \notin {0, key}
    /\ Did(2, "encrypt_file")
    /\ trail[3].op = "is_encrypted"
    /\ trail[3].result = "True"

\* ------------------------------------------------------------------------
\* Runs of the program under one key: secret.key, once written, stays
\* ------------------------------------------------------------------------

InitOneKey == InitVault

NextOneKey ==
    \/ load_encryption_key
    \/ load_encryption_key_raises
    \/ secure_enter
    \/ func_open_store
    \/ func_interrupted_early
    \/ func_command
    \/ secure_finally
    \/ kill

SpecOneKey == InitOneKey /\ [][NextOneKey]_vars

\* C34: while every run holds the same key, the store file is never more
\* than one layer deep, whatever way the runs end (return, exception,
\* sys.exit, interrupt, kill): the file is plain whenever the seal of the
\* finally clause is about to be written, so the seal never wraps a sealed
\* file.
C34_OneLayerUnderOneKey ==
    /\ Len(layers) <= 1
    /\ layers # <<>> => layers = <<keyFile>>
    /\ (wpc = "finally" /\ fileExists) => layers = <<>>

\* A run after a kill left by sys.exit, the file sealed once.
C34_Witness ==
    /\ everKilled
    /\ WrapperExited
    /\ exitPath = "sysexit"
    /\ sealCalls = 1
    /\ fileExists
    /\ layers = <<key>>
    /\ Len(rows) > 0


\* C35: after a process was killed while the store file was decrypted, the
\* next run under the same key that is not itself killed finds the file
\* plain after the silent unseal failure, opens it, works on the table as
\* the killed process left it, and leaves the file sealed under the key.
C35_RecoveryAfterKill ==
    /\ (crash.state = "killed" /\ wpc = "none")
          => /\ exitPath \in {"killed", "import_error"}
             /\ fileExists /\ layers = <<>>
    /\ (crash.state = "killed" /\ key = crash.key /\ wpc \in {"func", "cmd"})
          => /\ fileExists /\ layers = <<>>
             /\ rows = crash.rows
    /\ (crash.state = "recovered" /\ key = crash.key)
          => /\ WrapperExited
             /\ sealCalls = 1
             /\ fileExists /\ layers = <<key>>

\* A process was killed with a profile in the decrypted store, and the next
\* run under the same key returned with that profile in the sealed store.
C35_Witness ==
    /\ crash.state = "recovered"
    /\ key = crash.key
    /\ Len(crash.rows) > 0
    /\ rows = crash.rows
    /\ exitPath = "return"
    /\ layers = <<key>>


\* The store file holds a token made under the first key, and the running
\* or latest process holds the second key, generated after secret.key was
\* lost.
UnderOtherKey ==
    /\ keysMade = 2
    /\ key = 2
    /\ fileExists
    /\ layers # <<>>
    /\ layers[1] = 1

\* C36: while processes holding a second key run on a store sealed under
\* the first, no command is run on the table, the file is never more than
\* two layers deep, and each process that leaves the wrapper leaves the
\* first key's token under exactly one layer of the second key.
C36_WrongKeyWrapsOnce ==
    UnderOtherKey
        => /\ wpc # "cmd"
           /\ Len(layers) <= 2
           /\ Len(layers) = 2 => layers[2] = key
           /\ wpc = "finally" => (layers = <<1>> /\ exitPath # "return")
           /\ WrapperExited => layers = <<1, key>>

\* The second process under the second key has left the wrapper: the file
\* it found two layers deep is two layers deep again.
C36_Witness ==
    /\ UnderOtherKey
    /\ NAMESPACE = 3
    /\ WrapperExited
    /\ ~everKilled
    /\ Len(rows) > 0
    /\ layers = <<1, 2>>


====
